---- MODULE Spec2Model ----
(***************************************************************************)
(* Order lifecycle reconciliation of the Discord storefront bot:           *)
(* the flat-file order store (utils/store.js), the two payment webhooks,   *)
(* the button handlers (open_ticket, choose_prod, pay_crypto, pay_stripe)  *)
(* and the "+dn" close workflow of the bot's index.js.                     *)
(*                                                                         *)
(* Handlers run on one event loop: a handler is atomic between two await   *)
(* points, and the model has one action per such segment.  Amounts are in  *)
(* cents; the clock `now` stands for Date.now() / new Date().              *)
(***************************************************************************)
EXTENDS Integers, Sequences, FiniteSets, TLC

VARIABLES
  orders,          \* data/orders.json: db.orders, a list of order objects
  now,             \* the wall clock
  channels,        \* guild text channels: <<[owner, alive]>>, id = index
  payInflight,     \* pay_crypto / pay_stripe handlers awaiting the gateway
  notified,        \* order id -> paid notifications posted in its channel
  forceCounter,    \* globalThis["_force_<channelId>"]
  pendingDel,      \* channel -> deletion timers started and not yet fired
  lastResp,        \* the last webhook request and the HTTP answer it got
  lastClose,       \* the last authorized "+dn" command and what it did
  env,             \* process.env: which credentials are configured
  creatingTickets, \* Map userId -> timestamp (ticket anti-double lock)
  lockTimers,      \* pending expiry timers of acquireLock
  openH            \* open_ticket handlers in flight

vars == <<orders, now, channels, payInflight, notified, forceCounter,
          pendingDel, lastResp, lastClose, env,
          creatingTickets, lockTimers, openH>>

ticketVars == <<creatingTickets, lockTimers, openH>>

(***************************************************************************)
(* Bounds of the model.                                                    *)
(***************************************************************************)
MaxOrders == 2
MaxTime == 2
MaxPay == 1
MaxNotify == 2
MaxForce == 3
MaxTimers == 2

(***************************************************************************)
(* Configuration and the small worlds the inputs are drawn from.           *)
(***************************************************************************)
OWNER_ID == "own"
\* guild members: id, ManageChannels permission, support role
Members ==
  { [id |-> "u1",  manage |-> FALSE, role |-> FALSE],
    [id |-> "u2",  manage |-> FALSE, role |-> FALSE],
    [id |-> "sup", manage |-> FALSE, role |-> TRUE],
    [id |-> "own", manage |-> FALSE, role |-> FALSE],
    [id |-> "mgr", manage |-> TRUE,  role |-> FALSE] }
\* the members who press product buttons
Selectors == { m \in Members : m.id \in {"u1", "u2", "sup"} }

\* products.json: id, name and price (in cents)
products ==
  { [id |-> "gold", name |-> "Gold Pack", price |-> 999],
    [id |-> "vip",  name |-> "VIP Pack",  price |-> 2500] }
ProductIds == { p.id : p \in products } \cup { "gone" }

NULL == "null"
\* the null of getOrderById / getOrderByChannelId / markPaid
NoOrder == [null |-> TRUE]
\* a webhook that carries no order id
NoId == 0

Envs ==
  { [STRIPE_SECRET_KEY |-> TRUE,  STRIPE_WEBHOOK_SECRET |-> TRUE,
     CRYPTOMUS_WEBHOOK_SECRET |-> TRUE],
    [STRIPE_SECRET_KEY |-> TRUE,  STRIPE_WEBHOOK_SECRET |-> FALSE,
     CRYPTOMUS_WEBHOOK_SECRET |-> FALSE],
    [STRIPE_SECRET_KEY |-> FALSE, STRIPE_WEBHOOK_SECRET |-> TRUE,
     CRYPTOMUS_WEBHOOK_SECRET |-> FALSE] }

isStaff(member) ==
  \/ member.manage
  \/ member.role
  \/ member.id = OWNER_ID

\* money(n) and `$${(cents / 100).toFixed(2)}` for a whole number of cents
Pad2(n) == IF n < 10 THEN "0" \o ToString(n) ELSE ToString(n)
money(cents) == "$" \o ToString(cents \div 100) \o "." \o Pad2(cents % 100)

(***************************************************************************)
(* utils/store.js                                                          *)
(***************************************************************************)
\* Array.prototype.findIndex over the tests' results, 1-based; 0 when
\* nothing matches
FindIndex(hits) ==
  IF \E k \in 1..Len(hits) : hits[k]
    THEN CHOOSE k \in 1..Len(hits) :
           hits[k] /\ \A j \in 1..(k - 1) : ~hits[j]
    ELSE 0

\* { ...old, ...new }
Spread(old, new) == new @@ old

\* upsertOrder pushing the order without looking for its id
upsertOrderAppends(db, order) == Append(db, order)

\* upsertOrder looking the record up by its channel instead of its id
upsertOrderByChannel(db, order) ==
  LET idx == FindIndex([k \in 1..Len(db) |-> db[k].channelId = order.channelId])
  IN  IF idx = 0 THEN Append(db, order)
      ELSE [db EXCEPT ![idx] = Spread(db[idx], order)]

upsertOrder(db, order) ==
  LET idx == FindIndex([k \in 1..Len(db) |-> db[k].id = order.id])
  IN  IF idx = 0 THEN Append(db, order)
      ELSE [db EXCEPT ![idx] = Spread(db[idx], order)]

\* upsertOrder as a pair: the store after the call and the value returned,
\* which is the argument itself
upsertOrderCall(db, order) == [db |-> upsertOrder(db, order), ret |-> order]

getOrderById(db, id) ==
  LET idx == FindIndex([k \in 1..Len(db) |-> db[k].id = id])
  IN  IF idx = 0 THEN NoOrder ELSE db[idx]

getOrderByChannelId(db, channelId) ==
  LET idx == FindIndex([k \in 1..Len(db) |-> db[k].channelId = channelId])
  IN  IF idx = 0 THEN NoOrder ELSE db[idx]

\* markPaid refusing an order that is already paid
markPaidRejectsPaid(db, id, payment, t) ==
  LET order == getOrderById(db, id)
  IN  IF order = NoOrder \/ order.status = "paid"
        THEN [db |-> db, ret |-> NoOrder]
        ELSE LET paid == Spread(order,
                           [status  |-> "paid",
                            paidAt  |-> t,
                            payment |-> Spread(order.payment, payment)])
             IN  [db |-> upsertOrder(db, paid), ret |-> paid]

\* markPaid storing a record for an id it did not find
markPaidInsertsUnknown(db, id, payment, t) ==
  LET order == getOrderById(db, id)
      stub == [id |-> id, status |-> "paid", paidAt |-> t,
               payment |-> payment]
  IN  IF order = NoOrder
        THEN [db |-> Append(db, stub), ret |-> stub]
        ELSE LET paid == Spread(order,
                           [status  |-> "paid",
                            paidAt  |-> t,
                            payment |-> Spread(order.payment, payment)])
             IN  [db |-> upsertOrder(db, paid), ret |-> paid]

\* markPaid refusing an order to which no payment session was attached
markPaidNeedsSession(db, id, payment, t) ==
  LET order == getOrderById(db, id)
  IN  IF order = NoOrder \/ order.payment.url = NULL
        THEN [db |-> db, ret |-> NoOrder]
        ELSE LET paid == Spread(order,
                           [status  |-> "paid",
                            paidAt  |-> t,
                            payment |-> Spread(order.payment, payment)])
             IN  [db |-> upsertOrder(db, paid), ret |-> paid]

\* markPaid merging the payment fields with the old values winning
markPaidOldWins(db, id, payment, t) ==
  LET order == getOrderById(db, id)
  IN  IF order = NoOrder
        THEN [db |-> db, ret |-> NoOrder]
        ELSE LET paid == Spread(order,
                           [status  |-> "paid",
                            paidAt  |-> t,
                            payment |-> Spread(payment, order.payment)])
             IN  [db |-> upsertOrder(db, paid), ret |-> paid]

\* markPaid as a pair: the store after the call, and the value returned
markPaid(db, id, payment, t) ==
  LET order == getOrderById(db, id)
  IN  IF order = NoOrder
        THEN [db |-> db, ret |-> NoOrder]
        ELSE LET paid == Spread(order,
                           [status  |-> "paid",
                            paidAt  |-> t,
                            payment |-> Spread(order.payment, payment)])
             IN  [db |-> upsertOrder(db, paid), ret |-> paid]

(***************************************************************************)
(* Button handlers: choose_prod, pay_crypto, pay_stripe                    *)
(***************************************************************************)
ChannelIds == 1..Len(channels)
Alive(ch) == ch \in ChannelIds /\ channels[ch].alive

\* the order object built by choose_prod; uuid() is a fresh id.  guildId,
\* userTag and createdAt are written here and never changed or branched on
\* by any handler, and are left out of the record
NewOrder(member, ch, prod) ==
  [ id        |-> Len(orders) + 1,
    status    |-> "pending",
    channelId |-> ch,
    userId    |-> member.id,
    product   |-> [id |-> prod.id, name |-> prod.name,
                   price |-> prod.price],
    payment   |-> [method |-> NULL, provider |-> NULL, url |-> NULL,
                   transactionId |-> NULL, paidAmount |-> NULL] ]

\* choose_prod without the owner-or-staff check
ChooseProdVerdictOpen(member, ch, prodId) ==
  LET existingOrder == getOrderByChannelId(orders, ch)
  IN  IF ~\E p \in products : p.id = prodId THEN "no product"
      ELSE IF existingOrder # NoOrder /\ existingOrder.status # "paid"
        THEN "pending exists"
      ELSE "create"

\* what the choose_prod branch answers: "create", or the reason it rejects
\* choose_prod without the pending-order check
ChooseProdVerdictUnguarded(member, ch, prodId) ==
  IF channels[ch].owner # member.id /\ ~isStaff(member) THEN "not owner"
  ELSE IF ~\E p \in products : p.id = prodId THEN "no product"
  ELSE "create"

ChooseProdVerdict(member, ch, prodId) ==
  LET existingOrder == getOrderByChannelId(orders, ch)
  IN  IF channels[ch].owner # member.id /\ ~isStaff(member) THEN "not owner"
      ELSE IF ~\E p \in products : p.id = prodId THEN "no product"
      ELSE IF existingOrder # NoOrder /\ existingOrder.status # "paid"
        THEN "pending exists"
      ELSE "create"

ChooseProd(member, ch, prodId) ==
  /\ Alive(ch)
  /\ IF ChooseProdVerdict(member, ch, prodId) = "create"
       THEN LET prod == CHOOSE p \in products : p.id = prodId
            IN  orders' = upsertOrder(orders, NewOrder(member, ch, prod))
       ELSE orders' = orders
  /\ UNCHANGED <<now, channels, payInflight, notified, forceCounter,
                 pendingDel, lastResp, lastClose, env, ticketVars>>

\* what a pay button answers before it calls the gateway: "pay", or the
\* reason it rejects.  The channel the button is pressed in is not looked at
PayVerdict(ch, orderId) ==
  LET order == getOrderById(orders, orderId)
  IN  IF order = NoOrder THEN "not found"
      ELSE IF order.status = "paid" THEN "already paid"
      ELSE "pay"

\* Amounts are JavaScript doubles counted in dollars.  A price of c cents
\* is the double nearest to c / 100, and Number(amountUsd) * 100 is that
\* double times 100, rounded once more: both are off c by far less than
\* 1 / FloatScale of a cent.  An amount is kept in units of 1 / FloatScale
\* cent, with the error err the build can produce
FloatScale == 1000
FloatErr == {-1, 0, 1}
Hundredfold(cents, err) == cents * FloatScale + err

\* the integer nearest to v / FloatScale, ties going up
NearestInt(v) == (v + FloatScale \div 2) \div FloatScale

\* Math.floor in the place of Math.round
MathFloor(v) == v \div FloatScale

\* Math.round
MathRound(v) == NearestInt(v)

\* the decimal digits of a natural number, one character each
DigitChars == <<"0", "1", "2", "3", "4", "5", "6", "7", "8", "9">>
RECURSIVE DigitsOf(_)
DigitsOf(n) ==
  IF n < 10 THEN <<DigitChars[n + 1]>>
  ELSE Append(DigitsOf(n \div 10), DigitChars[(n % 10) + 1])

\* Number.prototype.toFixed(2) of an amount in dollars: n is the integer
\* for which n / 100 is nearest to the amount, printed with two decimals
toFixed2(v) ==
  LET n == NearestInt(v)
  IN  DigitsOf(n \div 100) \o <<".">>
        \o <<DigitChars[((n % 100) \div 10) + 1], DigitChars[(n % 10) + 1]>>

\* what the adapter asks of the provider: createStripeCheckout's
\* unit_amount and metadata, createCryptomusInvoice's amount and order_id
GatewayRequest(order, method, err) ==
  IF method = "stripe"
    THEN [ unit_amount |-> MathRound(Hundredfold(order.product.price, err)),
           metadata    |-> [orderId |-> order.id] ]
    ELSE [ amount   |-> toFixed2(Hundredfold(order.product.price, err)),
           order_id |-> order.id ]

\* pay_crypto:<orderId> / pay_stripe:<orderId>, up to the await of the gateway
PayStart(ch, orderId, method) ==
  LET order == getOrderById(orders, orderId)
  IN  /\ Alive(ch)
      /\ IF PayVerdict(ch, orderId) # "pay"
           THEN payInflight' = payInflight
           ELSE \E err \in FloatErr :
                  payInflight' = payInflight \cup
                    {[ order |-> order, method |-> method,
                       req |-> GatewayRequest(order, method, err) ]}
      /\ UNCHANGED <<orders, now, channels, notified, forceCounter,
                     pendingDel, lastResp, lastClose, env, ticketVars>>

\* what the provider answers to the adapter's request: a session with a pay
\* url, an error (provider error, missing credentials), or a response that
\* carries no pay url
GatewayResponses == {"session", "error", "no url"}

\* the session the gateway adapter returns
Session(method, resp) ==
  IF method = "crypto"
    THEN [method |-> "crypto", provider |-> "cryptomus",
          url |-> "pay.cryptomus", transactionId |-> "inv-uuid"]
    ELSE [method |-> "stripe", provider |-> "stripe",
          url |-> IF resp = "no url" THEN NULL ELSE "checkout.stripe",
          transactionId |-> "cs_id"]

\* the adapter returns a session instead of throwing: createCryptomusInvoice
\* throws on an error and on a result without url; createStripeCheckout
\* throws without STRIPE_SECRET_KEY and on an error, and returns whatever
\* session.url is
GatewayWorks(method, resp) ==
  IF method = "stripe"
    THEN resp # "error" /\ env.STRIPE_SECRET_KEY
    ELSE resp = "session"

\* a pay handler after the gateway's answer: the store it leaves and the
\* reply the user gets.  With a session it upserts first and builds the
\* link button next; setURL throws on a missing url, into the handler's catch
PayOutcome(h, resp) ==
  IF GatewayWorks(h.method, resp)
    THEN LET session == Session(h.method, resp)
         IN  [ db    |-> upsertOrder(orders,
                           Spread(h.order,
                             [payment |-> Spread(h.order.payment, session)])),
               reply |-> IF session.url = NULL THEN "error" ELSE "link sent" ]
    ELSE [db |-> orders, reply |-> "error"]

\* the gateway call returns or throws
PayFinish(h, resp) ==
  /\ h \in payInflight
  /\ payInflight' = payInflight \ {h}
  /\ orders' = PayOutcome(h, resp).db
  /\ UNCHANGED <<now, channels, notified, forceCounter,
                 pendingDel, lastResp, lastClose, env, ticketVars>>

(***************************************************************************)
(* Paid notification and the two webhook endpoints                         *)
(***************************************************************************)
\* notifyPaid posts iff the order's channel can still be fetched and the
\* send does not throw; every failure is swallowed
\* notifyPaid posting although the order's channel can no longer be fetched
NotifyPostsWithoutChannel(order, notifyOk) == notifyOk

NotifyPosts(order, notifyOk) == Alive(order.channelId) /\ notifyOk

\* utils/crypto.js
\* a trust check that refuses every request once a secret is configured
isCryptomusWebhookTrustedStrict(secret) == ~secret

isCryptomusWebhookTrusted(secret) == IF ~secret THEN TRUE ELSE TRUE

\* paidStatuses taking the provider's "confirm_check" for a paid status
paidStatusesWithCheck == {"paid", "paid_over", "paid_partial", "confirm_check"}

paidStatuses == {"paid", "paid_over", "paid_partial"}
CryptoStatuses == {"paid", "PAID_OVER", "confirm_check", ""}
\* String.prototype.toLowerCase on the statuses of the model
toLowerCase(s) == IF s = "PAID_OVER" THEN "paid_over" ELSE s

\* a || b on values that are NULL when absent
OrElse(a, b) == IF a # NULL THEN a ELSE b

CryptoPayloads ==
  [ order_id : 0..MaxOrders, status : CryptoStatuses,
    uuid : {"c-uuid"}, amount : {"9.99"} ]

\* the payment fields the Cryptomus webhook hands to markPaid
CryptoPayment(payload) ==
  [method |-> "crypto", provider |-> "cryptomus",
   transactionId |-> OrElse(payload.uuid, NULL),
   paidAmount |-> OrElse(payload.amount, NULL)]

\* the Cryptomus endpoint answering 500 when the handler throws
CryptomusOutcomeRethrows(payload, storeOk, notifyOk) ==
  LET status == toLowerCase(payload.status)
      res == markPaid(orders, payload.order_id, CryptoPayment(payload), now)
      same(code, how) == [db |-> orders, notify |-> NoId,
                          code |-> code, how |-> how]
  IN  IF payload.order_id = NoId THEN same(200, "no order")
      ELSE IF status \notin paidStatuses THEN same(200, "not paid")
      ELSE IF ~storeOk THEN same(500, "store error")
      ELSE IF res.ret = NoOrder THEN same(200, "unknown order")
      ELSE IF NotifyPosts(res.ret, notifyOk)
        THEN [db |-> res.db, notify |-> res.ret.id,
              code |-> 200, how |-> "paid"]
        ELSE [db |-> res.db, notify |-> NoId,
              code |-> 500, how |-> "paid, not notified"]

\* the outcome of POST /webhook/cryptomus: store, notification, answer
CryptomusOutcome(payload, storeOk, notifyOk) ==
  LET status == toLowerCase(payload.status)
      res == markPaid(orders, payload.order_id, CryptoPayment(payload), now)
      same(code, how) == [db |-> orders, notify |-> NoId,
                          code |-> code, how |-> how]
  IN  IF ~isCryptomusWebhookTrusted(env.CRYPTOMUS_WEBHOOK_SECRET)
        THEN same(401, "untrusted")
      ELSE IF payload.order_id = NoId THEN same(200, "no order")
      ELSE IF status \notin paidStatuses THEN same(200, "not paid")
      ELSE IF ~storeOk THEN same(200, "store error")
      ELSE IF res.ret = NoOrder THEN same(200, "unknown order")
      ELSE IF NotifyPosts(res.ret, notifyOk)
        THEN [db |-> res.db, notify |-> res.ret.id,
              code |-> 200, how |-> "paid"]
        ELSE [db |-> res.db, notify |-> NoId,
              code |-> 200, how |-> "paid, not notified"]

StripeEvents ==
  [ type : {"checkout.session.completed", "charge.refunded"},
    orderId : 0..MaxOrders, payment_intent : {"pi_1"},
    amount_total : {999} ]

\* the Stripe payment fields with the amount left in cents
StripePaymentInCents(event) ==
  [method |-> "stripe", provider |-> "stripe",
   transactionId |-> OrElse(event.payment_intent, NULL),
   paidAmount |-> IF event.amount_total # 0
                    THEN ToString(event.amount_total)
                    ELSE NULL]

\* the payment fields the Stripe webhook hands to markPaid
StripePayment(event) ==
  [method |-> "stripe", provider |-> "stripe",
   transactionId |-> OrElse(event.payment_intent, NULL),
   paidAmount |-> IF event.amount_total # 0
                    THEN money(event.amount_total)
                    ELSE NULL]

\* the outcome of POST /webhook/stripe
StripeOutcome(event, sigOk, storeOk, notifyOk) ==
  LET res == markPaid(orders, event.orderId, StripePayment(event), now)
      same(code, how) == [db |-> orders, notify |-> NoId,
                          code |-> code, how |-> how]
  IN  IF ~env.STRIPE_SECRET_KEY THEN same(200, "no key")
      ELSE IF env.STRIPE_WEBHOOK_SECRET /\ ~sigOk
        THEN same(200, "bad signature")
      ELSE IF event.type # "checkout.session.completed"
        THEN same(200, "ignored")
      ELSE IF event.orderId = NoId THEN same(200, "no order")
      ELSE IF ~storeOk THEN same(200, "store error")
      ELSE IF res.ret = NoOrder THEN same(200, "unknown order")
      ELSE IF NotifyPosts(res.ret, notifyOk)
        THEN [db |-> res.db, notify |-> res.ret.id,
              code |-> 200, how |-> "paid"]
        ELSE [db |-> res.db, notify |-> NoId,
              code |-> 200, how |-> "paid, not notified"]

RECURSIVE SumTo(_, _)
SumTo(f, n) == IF n = 0 THEN 0 ELSE f[n] + SumTo(f, n - 1)
\* the paid notifications posted so far
Notifications == SumTo(notified, MaxOrders)

\* a webhook whose payment confirmation clears the channel's deletion timer
WebhookCancelsTimer(ep, id, out, observed) ==
  /\ orders' = out.db
  /\ notified' = IF out.notify = NoId THEN notified
                 ELSE [notified EXCEPT ![out.notify] = @ + 1]
  /\ lastResp' = IF observed
                   THEN [endpoint |-> ep, id |-> id, code |-> out.code,
                         how |-> out.how, changed |-> out.db # orders]
                   ELSE lastResp
  /\ pendingDel' = IF out.db # orders
                     THEN [pendingDel EXCEPT
                             ![getOrderById(out.db, id).channelId] = 0]
                     ELSE pendingDel
  /\ UNCHANGED <<now, channels, payInflight, forceCounter,
                 lastClose, env, ticketVars>>

\* the effect of a webhook request with outcome out on endpoint ep; the
\* answer is recorded in lastResp where a specification observes it
Webhook(ep, id, out, observed) ==
  /\ orders' = out.db
  /\ notified' = IF out.notify = NoId THEN notified
                 ELSE [notified EXCEPT ![out.notify] = @ + 1]
  /\ lastResp' = IF observed
                   THEN [endpoint |-> ep, id |-> id, code |-> out.code,
                         how |-> out.how, changed |-> out.db # orders]
                   ELSE lastResp
  /\ UNCHANGED <<now, channels, payInflight, forceCounter,
                 pendingDel, lastClose, env, ticketVars>>

WebhookCryptomus(payload, storeOk, notifyOk, observed) ==
  Webhook("cryptomus", payload.order_id,
          CryptomusOutcome(payload, storeOk, notifyOk), observed)

WebhookStripe(event, sigOk, storeOk, notifyOk, observed) ==
  Webhook("stripe", event.orderId,
          StripeOutcome(event, sigOk, storeOk, notifyOk), observed)

(***************************************************************************)
(* "+dn" close workflow                                                    *)
(***************************************************************************)
\* the status of the order created last in the channel, "none" without one
RecentStatus(db, ch) ==
  LET idxs == { k \in 1..Len(db) : db[k].channelId = ch }
  IN  IF idxs = {} THEN "none"
      ELSE db[CHOOSE k \in idxs : \A j \in idxs : j <= k].status

CloseAuthorized(member) ==
  \/ OWNER_ID # "" /\ member.id = OWNER_ID
  \/ member.manage

\* "+dn" asking for the second confirmation whenever no paid order is found
CloseOutcomeNeedsPaid(ch, renderOk) ==
  LET order == getOrderByChannelId(orders, ch)
      friction == order = NoOrder \/ order.status # "paid"
      k == IF friction THEN forceCounter[ch] + 1 ELSE forceCounter[ch]
      proceeds == ~(friction /\ k < 2)
  IN  [ counter   |-> k,
        countdown |-> proceeds,
        invoice   |-> proceeds /\ order # NoOrder /\ renderOk,
        sched     |-> proceeds /\ (order = NoOrder \/ renderOk) ]

\* what an authorized "+dn" in channel ch does
CloseOutcome(ch, renderOk) ==
  LET order == getOrderByChannelId(orders, ch)
      friction == order # NoOrder /\ order.status # "paid"
      k == IF friction THEN forceCounter[ch] + 1 ELSE forceCounter[ch]
      proceeds == ~(friction /\ k < 2)
  IN  [ counter   |-> k,
        countdown |-> proceeds,
        invoice   |-> proceeds /\ order # NoOrder /\ renderOk,
        sched     |-> proceeds /\ (order = NoOrder \/ renderOk) ]

Close(member, ch, renderOk) ==
  /\ Alive(ch)
  /\ IF ~CloseAuthorized(member)
       THEN UNCHANGED <<forceCounter, pendingDel, lastClose>>
       ELSE LET out == CloseOutcome(ch, renderOk)
            IN  /\ forceCounter' = [forceCounter EXCEPT ![ch] = out.counter]
                /\ pendingDel' = IF out.sched
                                   THEN [pendingDel EXCEPT ![ch] = @ + 1]
                                   ELSE pendingDel
                /\ lastClose' = [ ch        |-> ch,
                                  recent    |-> RecentStatus(orders, ch),
                                  before    |-> forceCounter[ch],
                                  countdown |-> out.countdown,
                                  invoice   |-> out.invoice,
                                  sched     |-> out.sched ]
  /\ UNCHANGED <<orders, now, channels, payInflight, notified,
                 lastResp, env, ticketVars>>

\* the MessageCreate handler.  Messages arrive in a ticket channel or in a
\* channel with another name (place 0), with any text
Places == {0} \cup ChannelIds
Contents == {"+dn", " +dn ", "+DN", "+dn now", ""}

\* String.prototype.trim on the texts of the model
trim(s) == IF s = " +dn " THEN "+dn" ELSE s

\* the handler acting on "+dn" whoever typed it
MessageActsForAnyone(member, place, content) ==
  /\ place \in ChannelIds
  /\ trim(content) = "+dn"

\* the handler gets past its early returns: a ticket channel, the trigger,
\* an author who is the owner or holds ManageChannels
MessageActs(member, place, content) ==
  /\ place \in ChannelIds
  /\ trim(content) = "+dn"
  /\ CloseAuthorized(member)

MessageCreate(member, place, content, renderOk) ==
  IF MessageActs(member, place, content)
    THEN Close(member, place, renderOk)
    ELSE /\ place \in ChannelIds => Alive(place)
         /\ UNCHANGED vars

\* the timer's callback removing the channel's orders with the channel
DeleteChannelPurges(ch, deleteOk) ==
  /\ ch \in ChannelIds
  /\ pendingDel[ch] > 0
  /\ pendingDel' = [pendingDel EXCEPT ![ch] = @ - 1]
  /\ channels' = [channels EXCEPT ![ch].alive = FALSE]
  /\ orders' = SelectSeq(orders, LAMBDA o : o.channelId # ch)
  /\ UNCHANGED <<now, payInflight, notified, forceCounter,
                 lastResp, lastClose, env, ticketVars>>

\* the 10 s timer fires: m.channel.delete().catch(() => {}).  A delete call
\* that fails is swallowed and not retried; delFailed remembers that one did
DeleteChannel(ch, deleteOk) ==
  /\ ch \in ChannelIds
  /\ pendingDel[ch] > 0
  /\ pendingDel' = [pendingDel EXCEPT ![ch] = @ - 1]
  /\ channels' = IF deleteOk
                   THEN [channels EXCEPT ![ch].alive = FALSE]
                   ELSE [channels EXCEPT ![ch].delFailed = TRUE]
  /\ UNCHANGED <<orders, now, payInflight, notified, forceCounter,
                 lastResp, lastClose, env, ticketVars>>

Tick ==
  /\ now' = now + 1
  /\ UNCHANGED <<orders, channels, payInflight, notified, forceCounter,
                 pendingDel, lastResp, lastClose, env, ticketVars>>

(***************************************************************************)
(* The order lifecycle: two open ticket channels, an empty store           *)
(***************************************************************************)
NoResp == [endpoint |-> "none", id |-> NoId, code |-> 0, how |-> "none",
           changed |-> FALSE]
NoClose == [ch |-> 0, recent |-> "none", before |-> 0,
            countdown |-> FALSE, invoice |-> FALSE, sched |-> FALSE]

InitWith(envs) ==
  /\ orders = <<>>
  /\ now = 1
  /\ channels = << [owner |-> "u1", alive |-> TRUE, delFailed |-> FALSE],
                   [owner |-> "u2", alive |-> TRUE, delFailed |-> FALSE] >>
  /\ payInflight = {}
  /\ notified = [id \in 1..MaxOrders |-> 0]
  /\ forceCounter = [ch \in 1..2 |-> 0]
  /\ pendingDel = [ch \in 1..2 |-> 0]
  /\ lastResp = NoResp
  /\ lastClose = NoClose
  /\ env \in envs
  /\ creatingTickets = <<>>
  /\ lockTimers = {}
  /\ openH = <<>>

FullEnv == [STRIPE_SECRET_KEY |-> TRUE, STRIPE_WEBHOOK_SECRET |-> TRUE,
            CRYPTOMUS_WEBHOOK_SECRET |-> TRUE]

Owners == { m \in Members : m.id \in {"u1", "u2"} }

\* the guards that keep a run within the bounds of the model
MayCreate(member, ch, prodId, cap) ==
  ChooseProdVerdict(member, ch, prodId) = "create" => Len(orders) < cap
MayStartPay(id) ==
  LET order == getOrderById(orders, id)
  IN  (order # NoOrder /\ order.status # "paid")
        => Cardinality(payInflight) < MaxPay
MayNotify(out) == out.notify # NoId => Notifications < MaxNotify
MayTick == now < MaxTime

Init == InitWith({FullEnv})

Next ==
  \/ \E m \in Owners, ch \in ChannelIds, pid \in {"gold", "gone"} :
       MayCreate(m, ch, pid, MaxOrders) /\ ChooseProd(m, ch, pid)
  \/ \E ch \in ChannelIds, id \in 1..MaxOrders, meth \in {"crypto", "stripe"} :
       MayStartPay(id) /\ PayStart(ch, id, meth)
  \/ \E h \in payInflight, resp \in GatewayResponses : PayFinish(h, resp)
  \/ \E p \in CryptoPayloads, storeOk, notifyOk \in BOOLEAN :
       /\ MayNotify(CryptomusOutcome(p, storeOk, notifyOk))
       /\ WebhookCryptomus(p, storeOk, notifyOk, FALSE)
  \/ \E e \in StripeEvents, sigOk, storeOk, notifyOk \in BOOLEAN :
       /\ MayNotify(StripeOutcome(e, sigOk, storeOk, notifyOk))
       /\ WebhookStripe(e, sigOk, storeOk, notifyOk, FALSE)
  \/ MayTick /\ Tick

Spec == Init /\ [][Next]_vars

(***************************************************************************)
(* The webhook endpoints observed: every configuration, answers recorded   *)
(***************************************************************************)
InitHttp == InitWith(Envs)

NextHttp ==
  \/ \E m \in Owners, ch \in ChannelIds, pid \in {"gold", "gone"} :
       MayCreate(m, ch, pid, MaxOrders) /\ ChooseProd(m, ch, pid)
  \/ \E p \in CryptoPayloads, storeOk, notifyOk \in BOOLEAN :
       /\ MayNotify(CryptomusOutcome(p, storeOk, notifyOk))
       /\ WebhookCryptomus(p, storeOk, notifyOk, TRUE)
  \/ \E e \in StripeEvents, sigOk, storeOk, notifyOk \in BOOLEAN :
       /\ MayNotify(StripeOutcome(e, sigOk, storeOk, notifyOk))
       /\ WebhookStripe(e, sigOk, storeOk, notifyOk, TRUE)
  \/ MayTick /\ Tick

SpecHttp == InitHttp /\ [][NextHttp]_vars

(***************************************************************************)
(* Product selection: every selector and product, three orders             *)
(***************************************************************************)
MaxSelOrders == 3

NextSelect ==
  \/ \E m \in Selectors, ch \in ChannelIds, pid \in ProductIds :
       MayCreate(m, ch, pid, MaxSelOrders) /\ ChooseProd(m, ch, pid)
  \/ \E p \in CryptoPayloads, notifyOk \in BOOLEAN :
       /\ MayNotify(CryptomusOutcome(p, TRUE, notifyOk))
       /\ WebhookCryptomus(p, TRUE, notifyOk, FALSE)

SpecSelect == Init /\ [][NextSelect]_vars

(***************************************************************************)
(* The close workflow next to selection and payment confirmation           *)
(***************************************************************************)
MayClose(member, ch, renderOk) ==
  LET out == CloseOutcome(ch, renderOk)
  IN  CloseAuthorized(member) =>
        /\ out.counter <= MaxForce
        /\ out.sched => pendingDel[ch] < MaxTimers

NextClose ==
  \/ \E m \in Owners, ch \in ChannelIds, pid \in {"gold", "gone"} :
       MayCreate(m, ch, pid, MaxOrders) /\ ChooseProd(m, ch, pid)
  \/ \E p \in CryptoPayloads, notifyOk \in BOOLEAN :
       /\ MayNotify(CryptomusOutcome(p, TRUE, notifyOk))
       /\ WebhookCryptomus(p, TRUE, notifyOk, FALSE)
  \/ \E m \in Members, ch \in ChannelIds, renderOk \in BOOLEAN :
       MayClose(m, ch, renderOk) /\ Close(m, ch, renderOk)
  \/ \E ch \in ChannelIds : DeleteChannel(ch, TRUE)

SpecClose == Init /\ [][NextClose]_vars

(***************************************************************************)
(* Messages of every author, place and text next to the close workflow     *)
(***************************************************************************)
NextMessage ==
  \/ \E m \in Owners, ch \in ChannelIds :
       MayCreate(m, ch, "gold", MaxOrders) /\ ChooseProd(m, ch, "gold")
  \/ \E p \in CryptoPayloads :
       /\ MayNotify(CryptomusOutcome(p, TRUE, TRUE))
       /\ WebhookCryptomus(p, TRUE, TRUE, FALSE)
  \/ \E m \in Members, place \in Places, content \in Contents,
        renderOk \in BOOLEAN :
       /\ MessageActs(m, place, content) => MayClose(m, place, renderOk)
       /\ MessageCreate(m, place, content, renderOk)
  \/ \E ch \in ChannelIds : DeleteChannel(ch, TRUE)

SpecMessage == Init /\ [][NextMessage]_vars

(***************************************************************************)
(* The deletion timer: every timer that was set fires, the process being   *)
(* kept alive by the web server and the gateway connection                 *)
(***************************************************************************)
NextTimer ==
  \/ \E m \in Owners, ch \in ChannelIds :
       MayCreate(m, ch, "gold", MaxOrders) /\ ChooseProd(m, ch, "gold")
  \/ \E p \in CryptoPayloads :
       /\ MayNotify(CryptomusOutcome(p, TRUE, TRUE))
       /\ WebhookCryptomus(p, TRUE, TRUE, FALSE)
  \/ \E m \in Members, ch \in ChannelIds :
       MayClose(m, ch, TRUE) /\ Close(m, ch, TRUE)
  \/ \E ch \in ChannelIds, deleteOk \in BOOLEAN : DeleteChannel(ch, deleteOk)

SpecTimer ==
  /\ Init
  /\ [][NextTimer]_vars
  /\ \A ch \in 1..2 :
       WF_vars(\E deleteOk \in BOOLEAN : DeleteChannel(ch, deleteOk))

(***************************************************************************)
(* Card payments confirmed while tickets are being closed                  *)
(***************************************************************************)
NextSettle ==
  \/ \E m \in Owners, ch \in ChannelIds, pid \in {"gold", "gone"} :
       MayCreate(m, ch, pid, MaxOrders) /\ ChooseProd(m, ch, pid)
  \/ \E e \in StripeEvents, sigOk, notifyOk \in BOOLEAN :
       /\ MayNotify(StripeOutcome(e, sigOk, TRUE, notifyOk))
       /\ WebhookStripe(e, sigOk, TRUE, notifyOk, FALSE)
  \/ \E m \in Members, ch \in ChannelIds, renderOk \in BOOLEAN :
       MayClose(m, ch, renderOk) /\ Close(m, ch, renderOk)
  \/ \E ch \in ChannelIds : DeleteChannel(ch, TRUE)

SpecSettle == Init /\ [][NextSettle]_vars

(***************************************************************************)
(* open_ticket: the anti-double lock, the fresh lookup, the creation       *)
(***************************************************************************)
\* acquireLock's ttlMs = 8000, in clock units of 4000 ms
ttlMs == 2
MaxOpen == 3
MaxWait == 3
Slots == 1..MaxOpen
Users == {"u1", "u2"}
Idle == [pc |-> "idle", user |-> NULL, reply |-> NULL, rival |-> FALSE]
InFlight(h) == openH[h].pc \notin {"idle", "done"}

\* creatingTickets.get(userId) || 0
LockStamp(userId) == creatingTickets[userId]

\* acquireLock granting the lock whatever the stored timestamp
acquireLockAlways(userId) == TRUE

\* acquireLock refusing until the expiry timer has removed the timestamp
acquireLockUntilTimer(userId) == LockStamp(userId) = 0

\* acquireLock(userId): TRUE when the lock is taken
acquireLock(userId) == ~(now - LockStamp(userId) < ttlMs)

\* findExistingTicket: a fresh fetch of the guild's channels; a failed fetch
\* is swallowed and reads as "no ticket"
findExistingTicket(userId, fetchOk) ==
  fetchOk /\ \E c \in ChannelIds : channels[c].alive /\ channels[c].owner = userId

\* the button is pressed: the handler starts and awaits deferReply
OpenClick(h, u) ==
  /\ openH[h].pc = "idle"
  /\ LET rivals == { g \in Slots : InFlight(g) /\ openH[g].user = u }
     IN  openH' = [ g \in Slots |->
                      IF g = h
                        THEN [pc |-> "defer", user |-> u, reply |-> NULL,
                              rival |-> rivals # {}]
                      ELSE IF g \in rivals
                        THEN [openH[g] EXCEPT !.rival = TRUE]
                      ELSE openH[g] ]
  /\ UNCHANGED <<orders, now, channels, payInflight, notified, forceCounter,
                 pendingDel, lastResp, lastClose, env,
                 creatingTickets, lockTimers>>

\* deferReply has resolved: acquireLock, answered "please wait" when refused
OpenAcquire(h) ==
  LET u == openH[h].user
  IN  /\ openH[h].pc = "defer"
      /\ IF acquireLock(u)
           THEN /\ creatingTickets' = [creatingTickets EXCEPT ![u] = now]
                /\ lockTimers' = lockTimers \cup
                     {[user |-> u, stamp |-> now, due |-> now + ttlMs]}
                /\ openH' = [openH EXCEPT ![h].pc = "fetch"]
           ELSE /\ openH' = [openH EXCEPT ![h].pc = "done",
                                          ![h].reply = "please wait"]
                /\ UNCHANGED <<creatingTickets, lockTimers>>
      /\ UNCHANGED <<orders, now, channels, payInflight, notified,
                     forceCounter, pendingDel, lastResp, lastClose, env>>

\* the lookup has resolved: answered "already have a ticket" when one exists
OpenFetch(h, fetchOk) ==
  /\ openH[h].pc = "fetch"
  /\ openH' = IF findExistingTicket(openH[h].user, fetchOk)
                THEN [openH EXCEPT ![h].pc = "done",
                                   ![h].reply = "already exists"]
                ELSE [openH EXCEPT ![h].pc = "create"]
  /\ UNCHANGED <<orders, now, channels, payInflight, notified, forceCounter,
                 pendingDel, lastResp, lastClose, env,
                 creatingTickets, lockTimers>>

\* guild.channels.create has resolved (or thrown into the handler's catch)
OpenCreate(h, createOk) ==
  /\ openH[h].pc = "create"
  /\ IF createOk
       THEN /\ channels' = Append(channels,
                             [owner |-> openH[h].user, alive |-> TRUE,
                              delFailed |-> FALSE])
            /\ openH' = [openH EXCEPT ![h].pc = "done",
                                      ![h].reply = "created"]
       ELSE /\ channels' = channels
            /\ openH' = [openH EXCEPT ![h].pc = "done",
                                      ![h].reply = "error"]
  /\ UNCHANGED <<orders, now, payInflight, notified, forceCounter,
                 pendingDel, lastResp, lastClose, env,
                 creatingTickets, lockTimers>>

\* the setTimeout of acquireLock fires
LockExpire(tm) ==
  /\ tm \in lockTimers
  /\ now >= tm.due
  /\ lockTimers' = lockTimers \ {tm}
  /\ creatingTickets' =
       IF LockStamp(tm.user) = tm.stamp
         THEN [creatingTickets EXCEPT ![tm.user] = 0]
         ELSE creatingTickets
  /\ UNCHANGED <<orders, now, channels, payInflight, notified, forceCounter,
                 pendingDel, lastResp, lastClose, env, openH>>

\* the process is up, long after the epoch, with no ticket channel yet
InitTicket ==
  /\ orders = <<>>
  /\ now = ttlMs
  /\ channels = <<>>
  /\ payInflight = {}
  /\ notified = [id \in 1..MaxOrders |-> 0]
  /\ forceCounter = [ch \in 1..2 |-> 0]
  /\ pendingDel = [ch \in 1..2 |-> 0]
  /\ lastResp = NoResp
  /\ lastClose = NoClose
  /\ env = FullEnv
  /\ creatingTickets = [u \in Users |-> 0]
  /\ lockTimers = {}
  /\ openH = [h \in Slots |-> Idle]

NextTicket ==
  \/ \E h \in Slots, u \in Users : OpenClick(h, u)
  \/ \E h \in Slots : OpenAcquire(h)
  \/ \E h \in Slots, fetchOk \in BOOLEAN : OpenFetch(h, fetchOk)
  \/ \E h \in Slots, createOk \in BOOLEAN : OpenCreate(h, createOk)
  \/ \E tm \in lockTimers : LockExpire(tm)
  \/ now < ttlMs + MaxWait /\ Tick

SpecTicket == InitTicket /\ [][NextTicket]_vars

\* open_ticket under a clock that keeps running up to the horizon
SpecTicketClock ==
  /\ InitTicket
  /\ [][NextTicket]_vars
  /\ WF_vars(now < ttlMs + MaxWait /\ Tick)

(***************************************************************************)
(* The gateway requests: one pending order of any price of the range       *)
(***************************************************************************)
MaxCents == 120
PriceCents == (0..MaxCents) \cup {999, 2500, 99999, 100000}

InitGateway ==
  /\ \E c \in PriceCents :
       orders = << [ id        |-> 1,
                     status    |-> "pending",
                     channelId |-> 1,
                     userId    |-> "u1",
                     product   |-> [id |-> "gold", name |-> "Gold Pack",
                                    price |-> c],
                     payment   |-> [method |-> NULL, provider |-> NULL,
                                    url |-> NULL, transactionId |-> NULL,
                                    paidAmount |-> NULL] ] >>
  /\ now = 1
  /\ channels = << [owner |-> "u1", alive |-> TRUE, delFailed |-> FALSE],
                   [owner |-> "u2", alive |-> TRUE, delFailed |-> FALSE] >>
  /\ payInflight = {}
  /\ notified = [id \in 1..MaxOrders |-> 0]
  /\ forceCounter = [ch \in 1..2 |-> 0]
  /\ pendingDel = [ch \in 1..2 |-> 0]
  /\ lastResp = NoResp
  /\ lastClose = NoClose
  /\ env = FullEnv
  /\ creatingTickets = <<>>
  /\ lockTimers = {}
  /\ openH = <<>>

NextGateway ==
  \/ \E meth \in {"crypto", "stripe"} :
       MayStartPay(1) /\ PayStart(1, 1, meth)
  \/ \E h \in payInflight, resp \in GatewayResponses : PayFinish(h, resp)

SpecGateway == InitGateway /\ [][NextGateway]_vars

(***************************************************************************)
(* Claims                                                                  *)
(***************************************************************************)
StoredIds == { orders[k].id : k \in 1..Len(orders) }
WebhookPayments ==
  { CryptoPayment(p) : p \in CryptoPayloads } \cup
  { StripePayment(e) : e \in StripeEvents }
\* the store without the paidAt stamps
SansPaidAt(db) ==
  [ k \in 1..Len(db) |->
      [ f \in DOMAIN db[k] \ {"paidAt"} |-> db[k][f] ] ]

\* C1: under every interleaving of selections, pay handlers and webhooks,
\* an order that is stored as paid is never stored as pending again
C1_PaidNeverRevertsToPending ==
  [][ \A k \in 1..Len(orders) :
        orders[k].status = "paid" => orders'[k].status = "paid" ]_vars

\* C2: markPaid(id, P) called twice with the same P on an existing order
\* succeeds both times and leaves the store as one call leaves it: status
\* paid, the same payment fields, every other order as it was (only the
\* paidAt stamp is taken again)
C2_MarkPaidIdempotent ==
  \A id \in StoredIds, P \in WebhookPayments, t \in now..(MaxTime + 1) :
    LET once  == markPaid(orders, id, P, now)
        twice == markPaid(once.db, id, P, t)
    IN  /\ once.ret # NoOrder /\ twice.ret # NoOrder
        /\ twice.ret.status = "paid"
        /\ twice.ret.payment = once.ret.payment
        /\ getOrderById(twice.db, id) = twice.ret
        /\ SansPaidAt(twice.db) = SansPaidAt(once.db)

\* C2 witness: an order that webhooks have marked paid twice, the second
\* time at a later instant
C2_Witness ==
  \E k \in 1..Len(orders) :
    /\ notified[orders[k].id] >= 2
    /\ orders[k].status = "paid"
    /\ orders[k].paidAt > 1

\* C3: an order is transitioned to paid once, and a paid webhook delivered
\* for an already-paid order posts no further paid notification
C3_NotifiedAtMostOnce ==
  \A id \in 1..MaxOrders : notified[id] <= 1

\* C4: every channel has at most one stored order with status pending
C4_OnePendingOrderPerChannel ==
  \A ch \in ChannelIds :
    Cardinality({ k \in 1..Len(orders) :
                    orders[k].channelId = ch /\ orders[k].status = "pending" })
      <= 1

\* C6: in a channel whose order is not paid the first authorized close only
\* warns (no invoice, no deletion scheduled) and the second one renders the
\* invoice and schedules the deletion; the per-channel count never decreases
C6_ForceCloseFriction ==
  /\ [] ( (lastClose.ch # 0 /\ lastClose.recent = "pending") =>
            /\ lastClose.before = 0 =>
                 ~lastClose.invoice /\ ~lastClose.sched
            /\ lastClose.before = 1 =>
                 lastClose.invoice /\ lastClose.sched )
  /\ [][ \A ch \in ChannelIds : forceCounter'[ch] >= forceCounter[ch] ]_vars

\* C7: one authorized close in the channel of a paid order renders the
\* invoice and schedules the deletion, whatever the force-close counter
C7_PaidClosesAtOnce ==
  (lastClose.ch # 0 /\ lastClose.recent = "paid") =>
    lastClose.invoice /\ lastClose.sched

\* C8: markPaid on an id that matches no stored order returns null and
\* leaves the stored orders unchanged, and a webhook carrying such an id
\* posts no notification
C8_UnknownOrderIsNoOp ==
  /\ \A id \in (1..(MaxOrders + 1)) \ StoredIds, P \in WebhookPayments :
       markPaid(orders, id, P, now) = [db |-> orders, ret |-> NoOrder]
  /\ \A p \in CryptoPayloads, storeOk, notifyOk \in BOOLEAN :
       p.order_id \notin StoredIds =>
         LET out == CryptomusOutcome(p, storeOk, notifyOk)
         IN  out.db = orders /\ out.notify = NoId
  /\ \A e \in StripeEvents, sigOk, storeOk, notifyOk \in BOOLEAN :
       e.orderId \notin StoredIds =>
         LET out == StripeOutcome(e, sigOk, storeOk, notifyOk)
         IN  out.db = orders /\ out.notify = NoId
  /\ lastResp.how = "unknown order" =>
       /\ ~lastResp.changed
       /\ lastResp.id \notin StoredIds => notified[lastResp.id] = 0

\* C8 witness: a webhook named an unknown order while the store held one
C8_Witness ==
  /\ lastResp.how = "unknown order"
  /\ lastResp.id \notin StoredIds
  /\ Len(orders) > 0

\* C9: the Card webhook answers 401 when the signature fails verification
\* and 200 on every other outcome, and a request that fails verification
\* changes no order
C9_CardWebhook401OnBadSignature ==
  lastResp.endpoint = "stripe" =>
    IF lastResp.how = "bad signature"
      THEN lastResp.code = 401 /\ ~lastResp.changed
      ELSE lastResp.code = 200

C5_OneChannelForOverlappingOpens ==
  \A g, h \in Slots :
    (g # h /\ openH[g].user = openH[h].user
       /\ openH[g].rival /\ openH[h].rival)
      => ~(openH[g].reply = "created" /\ openH[h].reply = "created")

\* C11: a webhook outside the provider's paid set (Crypto: a status other
\* than paid, paid_over, paid_partial whatever its case; Card: an event type
\* other than checkout.session.completed) changes no stored order, posts no
\* notification and is answered 200
C11_NonPaidWebhookIgnored ==
  /\ \A p \in CryptoPayloads, storeOk, notifyOk \in BOOLEAN :
       toLowerCase(p.status) \notin {"paid", "paid_over", "paid_partial"} =>
         LET out == CryptomusOutcome(p, storeOk, notifyOk)
         IN  out.db = orders /\ out.notify = NoId /\ out.code = 200
  /\ \A e \in StripeEvents, sigOk, storeOk, notifyOk \in BOOLEAN :
       e.type # "checkout.session.completed" =>
         LET out == StripeOutcome(e, sigOk, storeOk, notifyOk)
         IN  out.db = orders /\ out.notify = NoId /\ out.code = 200
  /\ lastResp.how \in {"not paid", "ignored"} =>
       ~lastResp.changed /\ lastResp.code = 200

\* C11 witness: a Cryptomus webhook with a non-paid status was answered for
\* a stored pending order, which is still pending and not notified
C11_Witness ==
  /\ lastResp.endpoint = "cryptomus"
  /\ lastResp.how = "not paid"
  /\ lastResp.id \in StoredIds
  /\ getOrderById(orders, lastResp.id).status = "pending"
  /\ notified[lastResp.id] = 0

\* amounts in cents and the dollar string each one is to be stored as
C12_Amounts ==
  { <<999, "$9.99">>, <<2500, "$25.00">>, <<5, "$0.05">>, <<1050, "$10.50">> }
\* the verified checkout.session.completed event for order id, N cents
C12_Event(id, N) ==
  [type |-> "checkout.session.completed", orderId |-> id,
   payment_intent |-> "pi_1", amount_total |-> N]
PendingIds == { id \in StoredIds : getOrderById(orders, id).status = "pending" }

MemberOf(userId) == CHOOSE m \in Members : m.id = userId
\* staff as the specification defines it: the channel-management
\* permission, or the support role, or the configured owner id
SpecStaff(m) == m.manage \/ m.role \/ m.id = OWNER_ID

\* C13: the close command in a ticket channel is acted upon exactly when
\* its author is staff (channel-management permission, or support role, or
\* the configured owner id); from anyone else it has no effect
C13_CloseActedUponIffStaff ==
  \A m \in Members, ch \in ChannelIds :
    Alive(ch) => (CloseAuthorized(m) <=> SpecStaff(m))

\* C14: a product selection in a ticket channel creates an order only when
\* the actor is the channel's owner or a staff member; from any other actor
\* it is rejected with a message, and no order is created or changed
C14_SelectionByOwnerOrStaffOnly ==
  /\ [] \A k \in 1..Len(orders) :
          \/ channels[orders[k].channelId].owner = orders[k].userId
          \/ SpecStaff(MemberOf(orders[k].userId))
  /\ [] \A m \in Selectors, ch \in ChannelIds, pid \in ProductIds :
          (channels[ch].owner # m.id /\ ~SpecStaff(m))
            => ChooseProdVerdict(m, ch, pid) = "not owner"
  /\ [][ \A k \in 1..Len(orders) :
           Len(orders') >= Len(orders) /\ orders'[k].userId = orders[k].userId
       ]_vars

\* C14 witness: the store holds an order selected by the channel's owner
\* and one selected by a support member in a channel that is not theirs
C14_Witness ==
  /\ \E k \in 1..Len(orders) :
       channels[orders[k].channelId].owner = orders[k].userId
  /\ \E k \in 1..Len(orders) :
       /\ orders[k].userId = "sup"
       /\ channels[orders[k].channelId].owner # "sup"

\* C15: a pay-crypto or pay-card action is rejected, with no gateway call
\* and no change to any stored order, when the order id is unknown, when
\* the action is invoked in a channel other than the order's channelId, or
\* when the order is already paid
C15_PayRejectedWhenInvalid ==
  \A ch \in ChannelIds, id \in 1..MaxOrders :
    LET order == getOrderById(orders, id)
    IN  ( Alive(ch) /\
          ( \/ order = NoOrder
            \/ order.channelId # ch
            \/ order.status = "paid" ) )
          => PayVerdict(ch, id) # "pay"

\* C16: every stored order keeps the id and the product snapshot
\* {id, name, price} it was created with, through session attachment,
\* webhook confirmation and every other step, and no two stored orders
\* share an id
C16_IdAndProductImmutable ==
  /\ [] \A j, k \in 1..Len(orders) : orders[j].id = orders[k].id => j = k
  /\ [] \A k \in 1..Len(orders) :
          \E p \in products :
            orders[k].product =
              [id |-> p.id, name |-> p.name, price |-> p.price]
  /\ [][ \A k \in 1..Len(orders) :
           /\ k <= Len(orders')
           /\ orders'[k].id = orders[k].id
           /\ orders'[k].product = orders[k].product ]_vars

\* C16 witness: an order that went through session attachment and webhook
\* confirmation, next to another stored order
C16_Witness ==
  /\ Len(orders) = 2
  /\ \E k \in 1..Len(orders) :
       /\ orders[k].status = "paid"
       /\ orders[k].payment.url # NULL
       /\ orders[k].product.name = "Gold Pack"

\* C18 (amended): once a close command has scheduled a channel's deletion
\* the timer fires and the deletion is attempted, whatever happens in
\* between (the order becoming paid, further commands): the channel is
\* eventually deleted unless a delete call on it fails
C18_ScheduledDeletionAttempted ==
  \A ch \in 1..2 :
    (pendingDel[ch] > 0) ~> (~channels[ch].alive \/ channels[ch].delFailed)

\* C18 witness: a deletion was scheduled for a pending order's channel, the
\* order became paid during the countdown, and the channel is deleted
C18_Witness ==
  \E k \in 1..Len(orders) :
    /\ orders[k].status = "paid"
    /\ forceCounter[orders[k].channelId] = 2
    /\ ~channels[orders[k].channelId].alive
    /\ ~channels[orders[k].channelId].delFailed

\* C18 as stated: once a close command has scheduled a channel's deletion,
\* the channel is eventually deleted
C18_ScheduledDeletionHappens ==
  \A ch \in 1..2 : (pendingDel[ch] > 0) ~> ~channels[ch].alive

\* C17: orders are never deleted: the set of stored order ids only grows,
\* and closing a ticket (invoice, channel deletion) leaves the order record
\* in the store, retrievable by id
C17_OrdersNeverDeleted ==
  [][ /\ Len(orders') >= Len(orders)
      /\ \A id \in StoredIds :
           /\ getOrderById(orders', id) # NoOrder
           /\ getOrderById(orders', id).id = id
           /\ getOrderById(orders', id).channelId =
                getOrderById(orders, id).channelId ]_vars

\* C17 witness: a ticket was closed with its invoice, its channel is
\* deleted, and the channel's order is still in the store
C17_Witness ==
  /\ lastClose.invoice /\ lastClose.sched
  /\ ~channels[lastClose.ch].alive
  /\ \E id \in StoredIds :
       getOrderById(orders, id).channelId = lastClose.ch

\* C19: an authorized close command in a ticket channel that has no order
\* proceeds on the first command as a plain close: the countdown notice is
\* posted and the deletion scheduled, no invoice is rendered, and the
\* force-close counter is neither consulted nor changed
C19_PlainCloseWithoutOrder ==
  /\ \A ch \in ChannelIds, renderOk \in BOOLEAN :
       (Alive(ch) /\ getOrderByChannelId(orders, ch) = NoOrder) =>
         CloseOutcome(ch, renderOk) =
           [counter |-> forceCounter[ch], countdown |-> TRUE,
            invoice |-> FALSE, sched |-> TRUE]
  /\ (lastClose.ch # 0 /\ lastClose.recent = "none") =>
       /\ lastClose.countdown /\ lastClose.sched /\ ~lastClose.invoice
       /\ forceCounter[lastClose.ch] = lastClose.before

\* C19 witness: the first close command typed in a channel without an order
\* has scheduled its deletion, while the other channel holds an order
C19_Witness ==
  /\ lastClose.ch # 0
  /\ lastClose.recent = "none"
  /\ lastClose.sched
  /\ pendingDel[lastClose.ch] = 1
  /\ Len(orders) > 0

\* the stored pending orders to which no payment session was ever attached
C20_Sessionless ==
  { id \in PendingIds :
      LET o == getOrderById(orders, id)
      IN  /\ o.payment.method = NULL
          /\ o.payment.url = NULL
          /\ o.payment.transactionId = NULL }

\* C20: the order of lifecycle steps is not enforced: a paid webhook for a
\* stored pending order that never had a payment session (payment.method,
\* url and transactionId null) marks it paid and notifies it like any other
C20_PaidWithoutSession ==
  /\ \A p \in CryptoPayloads, notifyOk \in BOOLEAN :
       (p.order_id \in C20_Sessionless
          /\ toLowerCase(p.status) \in {"paid", "paid_over", "paid_partial"})
         => LET out == CryptomusOutcome(p, TRUE, notifyOk)
                o   == getOrderById(orders, p.order_id)
            IN  /\ getOrderById(out.db, p.order_id).status = "paid"
                /\ out.code = 200
                /\ out.notify =
                     IF Alive(o.channelId) /\ notifyOk
                       THEN p.order_id ELSE NoId
  /\ \A e \in StripeEvents, notifyOk \in BOOLEAN :
       (e.orderId \in C20_Sessionless
          /\ e.type = "checkout.session.completed")
         => LET out == StripeOutcome(e, TRUE, TRUE, notifyOk)
                o   == getOrderById(orders, e.orderId)
            IN  /\ getOrderById(out.db, e.orderId).status = "paid"
                /\ out.code = 200
                /\ out.notify =
                     IF Alive(o.channelId) /\ notifyOk
                       THEN e.orderId ELSE NoId

\* C20 witness: an order paid and notified by a Cryptomus webhook although
\* no pay button was ever pressed for it
C20_Witness ==
  \E k \in 1..Len(orders) :
    /\ orders[k].status = "paid"
    /\ orders[k].payment.url = NULL
    /\ orders[k].payment.method = "crypto"
    /\ notified[orders[k].id] = 1
    /\ payInflight = {}

\* C21: when a gateway adapter fails to create a payment session (provider
\* error, missing credentials, a response without a usable pay url) the
\* user gets an error message and the stored orders are left as they were
C21_GatewayFailureLeavesOrder ==
  \A h \in payInflight, resp \in GatewayResponses :
    (resp # "session" \/ (h.method = "stripe" /\ ~env.STRIPE_SECRET_KEY))
      => PayOutcome(h, resp) = [db |-> orders, reply |-> "error"]

C23_MarkPaidMergesPayment ==
  /\ \A id \in StoredIds, P \in WebhookPayments :
       LET old == getOrderById(orders, id)
           res == markPaid(orders, id, P, now)
       IN  /\ res.ret.status = "paid"
           /\ getOrderById(res.db, id) = res.ret
           /\ DOMAIN res.ret.payment = DOMAIN old.payment
           /\ \A f \in DOMAIN P : res.ret.payment[f] = P[f]
           /\ \A f \in DOMAIN old.payment \ DOMAIN P :
                res.ret.payment[f] = old.payment[f]
  /\ \A p \in CryptoPayloads :
       LET old == getOrderById(orders, p.order_id)
           out == CryptomusOutcome(p, TRUE, TRUE)
           new == getOrderById(out.db, p.order_id).payment
       IN  ( old # NoOrder /\ old.status = "pending" /\ p.status = "paid"
               /\ old.payment.url # NULL )
             => new = [method |-> "crypto", provider |-> "cryptomus",
                       url |-> old.payment.url,
                       transactionId |-> p.uuid, paidAmount |-> p.amount]

\* C23 witness: an order whose session was created by the Card adapter and
\* which a Cryptomus webhook then confirmed
C23_Witness ==
  \E k \in 1..Len(orders) :
    /\ orders[k].status = "paid"
    /\ orders[k].payment =
         [method |-> "crypto", provider |-> "cryptomus",
          url |-> "checkout.stripe",
          transactionId |-> "c-uuid", paidAmount |-> "9.99"]

\* The orders a payment handler in flight passes to upsertOrder: its
\* snapshot of the order with the session's payment fields laid over it
C24_Upserts ==
  { Spread(h.order, [payment |-> Spread(h.order.payment, Session(h.method, resp))]) :
      h \in payInflight, resp \in {"session"} }

\* C24: upsertOrder(o) inserts o when its id is unknown and otherwise lays
\* o's top-level fields over the matching record; every other stored order
\* is unchanged and the value returned is the stored order
C24_UpsertReturnsStored ==
  \A o \in C24_Upserts :
    LET res == upsertOrderCall(orders, o)
        old == getOrderById(orders, o.id)
    IN  /\ IF old = NoOrder
             THEN res.db = Append(orders, o)
             ELSE /\ Len(res.db) = Len(orders)
                  /\ getOrderById(res.db, o.id) = Spread(old, o)
        /\ \A k \in 1..Len(orders) :
             orders[k].id # o.id => res.db[k] = orders[k]
        /\ res.ret = getOrderById(res.db, o.id)

\* C25: getOrderByChannelId returns the most recent (last created) of the
\* stored orders of a channel, and not-found when the channel has none
C25_LookupReturnsMostRecent ==
  \A ch \in ChannelIds :
    LET idxs == { k \in 1..Len(orders) : orders[k].channelId = ch }
    IN  getOrderByChannelId(orders, ch) =
          IF idxs = {} THEN NoOrder
          ELSE orders[CHOOSE k \in idxs : \A j \in idxs : j <= k]

\* C26: a stored order carries a paidAt timestamp if and only if its status
\* is paid
C26_PaidAtIffPaid ==
  \A k \in 1..Len(orders) :
    ("paidAt" \in DOMAIN orders[k]) <=> (orders[k].status = "paid")

\* The lock of user u is held: a timestamp younger than ttlMs is stored
C27_Held(u) == now - creatingTickets[u] < ttlMs

\* C27: while a user's ticket-creation lock is held, a further open-ticket
\* attempt by that user is answered 'please wait', creates no channel and
\* neither releases nor extends the lock; an attempt never touches the lock
\* of another user
C27_HeldLockRejects ==
  /\ [][ \A h \in Slots :
           (openH[h].pc = "defer" /\ openH'[h].pc # "defer") =>
             /\ C27_Held(openH[h].user) =>
                  /\ openH'[h].pc = "done"
                  /\ openH'[h].reply = "please wait"
                  /\ channels' = channels
                  /\ creatingTickets' = creatingTickets
                  /\ lockTimers' = lockTimers
             /\ \A v \in Users \ {openH[h].user} :
                  creatingTickets'[v] = creatingTickets[v] ]_vars
  /\ [] ( \A h \in Slots :
            openH[h].reply = "please wait" => openH[h].pc = "done" )

\* C27 witness: a user's second attempt was refused while the first went on
\* to create the channel, and the other user holds a lock of their own
C27_Witness ==
  \E h, g \in Slots :
    /\ openH[h].user = "u1" /\ openH[h].reply = "please wait"
    /\ openH[g].user = "u1" /\ openH[g].reply = "created"
    /\ C27_Held("u2")
    /\ Len(channels) = 1

\* C28: the ticket-creation lock never blocks a user for good: a lock taken
\* early enough for its expiry to lie within the clock's horizon is free
\* again later, and an open-ticket attempt that finds the expiry interval
\* elapsed takes the lock and goes on to the lookup, whether or not the
\* expiry timer has run and whatever became of the handler that held it
C28_LockIsReleased ==
  /\ \A u \in Users :
       (~acquireLock(u) /\ creatingTickets[u] <= MaxWait) ~> acquireLock(u)
  /\ [][ \A h \in Slots :
           ( /\ openH[h].pc = "defer" /\ openH'[h].pc # "defer"
             /\ now - creatingTickets[openH[h].user] >= ttlMs )
             => /\ openH'[h].pc = "fetch"
                /\ creatingTickets'[openH[h].user] = now ]_vars

\* C28 witness: a handler whose channel creation failed has ended, and a
\* later attempt of the same user, not overlapping it, holds the lock
C28_Witness ==
  \E g, h \in Slots :
    /\ openH[g].user = "u1" /\ openH[g].reply = "error" /\ ~openH[g].rival
    /\ openH[h].user = "u1" /\ openH[h].pc = "fetch" /\ ~openH[h].rival
    /\ creatingTickets["u1"] = now
    /\ channels = <<>>

\* C29: an open-ticket handler whose lookup, made after the lock is taken,
\* runs while its user has a ticket channel answers with the pointer to
\* that channel and creates none
C29_ExistingTicketIsFound ==
  [][ \A h \in Slots :
        ( /\ openH[h].pc = "fetch" /\ openH'[h].pc # "fetch"
          /\ \E c \in ChannelIds :
               channels[c].alive /\ channels[c].owner = openH[h].user )
          => /\ openH'[h].pc = "done"
             /\ openH'[h].reply = "already exists"
             /\ channels' = channels ]_vars

\* C30: once "+dn" has posted its countdown notice the deletion of the
\* channel is scheduled, whether or not the invoice could be rendered
C30_CountdownSchedulesDeletion ==
  lastClose.countdown => lastClose.sched

\* C31: a paid webhook for an order whose channel has been deleted by the
\* close workflow marks the order paid and is answered 200, and it posts no
\* paid notification, in no channel; no step posts a notification for an
\* order whose channel is gone
C31_PaidAfterChannelDeleted ==
  /\ [] ( \A k \in 1..Len(orders), notifyOk \in BOOLEAN :
            ~Alive(orders[k].channelId) =>
              /\ \A p \in CryptoPayloads :
                   (p.order_id = orders[k].id /\ p.status = "paid") =>
                     LET out == CryptomusOutcome(p, TRUE, notifyOk)
                     IN  /\ out.code = 200
                         /\ out.notify = NoId
                         /\ getOrderById(out.db, p.order_id).status = "paid"
              /\ \A e \in StripeEvents :
                   ( /\ e.orderId = orders[k].id
                     /\ e.type = "checkout.session.completed" ) =>
                     LET out == StripeOutcome(e, TRUE, TRUE, notifyOk)
                     IN  /\ out.code = 200
                         /\ out.notify = NoId
                         /\ getOrderById(out.db, e.orderId).status = "paid" )
  /\ [][ \A k \in 1..Len(orders) :
           notified'[orders[k].id] # notified[orders[k].id]
             => Alive(orders[k].channelId) ]_vars

\* C31 witness: an order is paid and was never announced, its channel was
\* deleted, and every notification that is attempted here succeeds: the
\* webhook came after the deletion
C31_Witness ==
  \E k \in 1..Len(orders) :
    /\ orders[k].status = "paid"
    /\ ~Alive(orders[k].channelId)
    /\ notified[orders[k].id] = 0

\* The number of cents a decimal string stands for, read digit by digit
\* with the point skipped
C32_DigitValue(ch) == CHOOSE d \in 0..9 : DigitChars[d + 1] = ch
RECURSIVE C32_CentsOf(_)
C32_CentsOf(s) ==
  IF s = <<>> THEN 0
  ELSE LET rest == C32_CentsOf(SubSeq(s, 1, Len(s) - 1))
       IN  IF s[Len(s)] = "." THEN rest
           ELSE 10 * rest + C32_DigitValue(s[Len(s)])

\* C32: for a price of a whole number of cents the Card adapter asks for
\* exactly that number of cents and the Crypto adapter sends the same amount
\* as a decimal string with exactly two decimals, whatever the rounding
\* error of the floating-point amount; both requests carry the order's id
C32_GatewayAmounts ==
  \A h \in payInflight :
    /\ \A err \in FloatErr : GatewayRequest(h.order, h.method, err) = h.req
    /\ h.method = "stripe" =>
         /\ h.req.unit_amount = h.order.product.price
         /\ h.req.metadata.orderId = h.order.id
    /\ h.method = "crypto" =>
         LET s == h.req.amount
         IN  /\ h.req.order_id = h.order.id
             /\ Len(s) >= 4
             /\ \A k \in 1..Len(s) :
                  IF k = Len(s) - 2 THEN s[k] = "."
                  ELSE \E d \in 1..10 : DigitChars[d] = s[k]
             /\ Len(s) > 4 => s[1] # "0"
             /\ C32_CentsOf(s) = h.order.product.price

\* C32 witness: the Crypto adapter was asked for an order of 999.99 dollars
C32_Witness ==
  \E h \in payInflight :
    /\ h.method = "crypto"
    /\ h.order.product.price = 99999
    /\ h.req = [amount |-> <<"9", "9", "9", ".", "9", "9">>, order_id |-> 1]

\* The positions of the stored orders of channel ch
C33_OrdersOf(ch) == { k \in 1..Len(orders) : orders[k].channelId = ch }

\* C33: selections in a ticket channel that has no order yet create exactly
\* one order: a selection checks and inserts in one step, so while that
\* first order is pending it is the channel's only order and every further
\* selection in the channel is answered "pending exists"
C33_OneOrderFromSimultaneousSelections ==
  /\ [] \A ch \in ChannelIds :
          ( C33_OrdersOf(ch) # {} /\
            orders[CHOOSE k \in C33_OrdersOf(ch) :
                     \A j \in C33_OrdersOf(ch) : k <= j].status = "pending" )
            => /\ Cardinality(C33_OrdersOf(ch)) = 1
               /\ \A m \in Selectors, pid \in ProductIds :
                    ChooseProdVerdict(m, ch, pid) \in
                      {"not owner", "no product", "pending exists"}
               /\ \A m \in Selectors :
                    (channels[ch].owner = m.id \/ isStaff(m))
                      => ChooseProdVerdict(m, ch, "gold") = "pending exists"
  /\ [][ \A ch \in ChannelIds :
           { k \in 1..Len(orders) : orders[k].channelId = ch } = {}
             => Cardinality({ k \in 1..Len(orders') :
                                orders'[k].channelId = ch }) <= 1 ]_vars

\* C33 witness: each of the two channels holds one pending order and
\* nothing else, and a further selection by its owner would be rejected
C33_Witness ==
  \A ch \in ChannelIds :
    /\ Cardinality(C33_OrdersOf(ch)) = 1
    /\ \A k \in C33_OrdersOf(ch) : orders[k].status = "pending"
    /\ ChooseProdVerdict(MemberOf(channels[ch].owner), ch, "vip")
         = "pending exists"

\* C34: every stored order's userId is the owner encoded in the name of the
\* ticket channel the order was created in
C34_OrderBelongsToChannelOwner ==
  \A k \in 1..Len(orders) :
    orders[k].userId = channels[orders[k].channelId].owner

\* C35: a close command typed by an author who is not staff, typed outside
\* a ticket channel, or a text other than the trigger (surrounding blanks
\* aside) changes nothing: the handler returns before the force-close
\* counter, the messages, the invoice and the deletion timer, and no step
\* of such a message changes any variable
C35_UnauthorizedCloseChangesNothing ==
  /\ [] \A m \in Members, place \in Places, content \in Contents :
          ( \/ ~SpecStaff(m)
            \/ place \notin ChannelIds
            \/ trim(content) # "+dn" )
            => ~MessageActs(m, place, content)
  /\ [][ \/ /\ forceCounter' = forceCounter
              /\ pendingDel' = pendingDel
              /\ lastClose' = lastClose
              /\ channels' = channels
              /\ orders' = orders
           \/ \A m \in Members, place \in Places, content \in Contents,
                 renderOk \in BOOLEAN :
                ( \/ ~SpecStaff(m)
                  \/ place \notin ChannelIds
                  \/ trim(content) # "+dn" )
                  => ~MessageCreate(m, place, content, renderOk) ]_vars

\* C35 witness: a pending order's channel has had its first confirmation
\* and is still open, so that a counted "+dn" of a plain member would now
\* close it
C35_Witness ==
  \E ch \in ChannelIds :
    /\ Alive(ch)
    /\ forceCounter[ch] = 1
    /\ pendingDel[ch] = 0
    /\ getOrderByChannelId(orders, ch) # NoOrder
    /\ getOrderByChannelId(orders, ch).status = "pending"
    /\ ~MessageActs(MemberOf("u1"), ch, "+dn")

\* C36: for each ticket channel the close workflow proceeds at most once:
\* at most one deletion is ever pending for a channel
C36_CloseProceedsOnce ==
  \A ch \in ChannelIds : pendingDel[ch] <= 1

\* The store db holds every record of the current store unchanged, except
\* the one with the given id
C37_OnlyChanges(db, id) ==
  /\ Len(db) = Len(orders)
  /\ \A k \in 1..Len(orders) : orders[k].id # id => db[k] = orders[k]

\* C37: under every interleaving an operation on one order changes only the
\* stored record with that order's id: a pay handler's write after its
\* gateway call, whatever happened to the store meanwhile, and a webhook's
\* markPaid leave every other record as the store holds it now, and no step
\* changes two records or drops one
C37_OtherOrdersUntouched ==
  /\ [] \A h \in payInflight, resp \in GatewayResponses :
          C37_OnlyChanges(PayOutcome(h, resp).db, h.order.id)
  /\ [] \A p \in CryptoPayloads, storeOk, notifyOk \in BOOLEAN :
          C37_OnlyChanges(CryptomusOutcome(p, storeOk, notifyOk).db, p.order_id)
  /\ [] \A e \in StripeEvents, sigOk, storeOk, notifyOk \in BOOLEAN :
          C37_OnlyChanges(StripeOutcome(e, sigOk, storeOk, notifyOk).db,
                          e.orderId)
  /\ [][ /\ Len(orders') >= Len(orders)
         /\ \A j, k \in 1..Len(orders) :
              (orders'[j] # orders[j] /\ orders'[k] # orders[k]) => j = k
         /\ \A k \in 1..Len(orders) : orders'[k].id = orders[k].id ]_vars

\* C37 witness: a pay handler of one order is awaiting its gateway while
\* another order, which had a session attached, has been marked paid
C37_Witness ==
  \E h \in payInflight, k \in 1..Len(orders) :
    /\ orders[k].id # h.order.id
    /\ orders[k].status = "paid"
    /\ orders[k].payment.url # NULL
    /\ getOrderById(orders, h.order.id).status = "pending"
    /\ PayOutcome(h, "session").db # orders

====
